---- MODULE Spec2Model ----
(***************************************************************************)
(* The SQLite job storage of apalis-sql (packages/apalis-sql/src/sqlite.rs) *)
(* as a state machine: the Jobs and Workers tables, the clock, the poll     *)
(* streams opened by consume, and one action per storage operation.  Every  *)
(* SQL statement of the source is one atomic step.                          *)
(***************************************************************************)
EXTENDS Integers, Sequences, FiniteSets, TLC

(* ------------------------------ bounds --------------------------------- *)
MaxJobs == 1
MaxQueue == 2
MaxWorkerRows == 2
MaxBeats == 1
MaxTime == 301
MaxCount == 2
MaxWait == 300
NumStreams == 2

(* --------------------------- program constants ------------------------- *)
\* chrono::Duration::minutes(5), in seconds of Utc::now().timestamp()
OrphanAge == 300
\* the max_attempts literal of both INSERT statements
DefaultMaxAttempts == 25

JobTypes == {"email", "sms"}
WorkerIds == {"w1", "w2"}
Streams == 1..NumStreams
\* the job type T of the Storage<T> each worker runs on
StorageOf == [w \in WorkerIds |-> IF w = "w1" THEN "email" ELSE "sms"]
\* the worker id each stream is opened with: every worker its own stream
OwnIds == [s \in Streams |-> IF s % 2 = 1 THEN "w1" ELSE "w2"]
Payloads == {"payload"}

\* Option<T>: None / Some(v); a NULL column is None
None == <<>>
Some(v) == <<v>>

\* the steps the clock advances by, and the waits passed to reschedule
ClockSteps == {OrphanAge, OrphanAge + 1}
Waits == {0, MaxWait}

VARIABLES
    jobs,       \* table Jobs, in rowid order
    workers,    \* table Workers, in rowid order
    now,        \* Utc::now().timestamp() / strftime('%s','now')
    stream,     \* the poll streams returned by consume
    got,        \* job id -> worker ids fetch_next returned the job to since it was last Pending
    last        \* the last operation: its name, caller, argument and result

vars == <<jobs, workers, now, stream, got, last>>

(* ------------------------------ tables --------------------------------- *)
\* the INSERT of push and schedule with attempts = 1 in place of 0
NewJobAttempted(payload, id, T, run_at) ==
    [job |-> payload, id |-> id, job_type |-> T, status |-> "Pending",
     attempts |-> 1, max_attempts |-> DefaultMaxAttempts, run_at |-> run_at,
     last_error |-> None, lock_at |-> None, lock_by |-> None, done_at |-> None]

\* CREATE TABLE Jobs: the row written by the INSERT of push and schedule
NewJob(payload, id, T, run_at) ==
    [job |-> payload, id |-> id, job_type |-> T, status |-> "Pending",
     attempts |-> 0, max_attempts |-> DefaultMaxAttempts, run_at |-> run_at,
     last_error |-> None, lock_at |-> None, lock_by |-> None, done_at |-> None]

\* CREATE TABLE Workers: a row; the table has no PRIMARY KEY and no UNIQUE index
WorkerRow(id, T, last_seen) ==
    [id |-> id, worker_type |-> T, storage_name |-> <<"SqliteStorage", T>>,
     last_seen |-> last_seen]

\* Uuid::new_v4(): an id no row has
FreshId == Len(jobs) + 1

\* the ids any specification below hands out
JobIds == 1..(IF MaxJobs > MaxQueue THEN MaxJobs ELSE MaxQueue)

\* UPDATE Jobs SET ... WHERE ...: `hit` the rowids the WHERE matches, `set`
\* the row each rowid would become
UpdateWhere(js, hit, set) ==
    [i \in DOMAIN js |-> IF i \in hit THEN set[i] ELSE js[i]]

\* Result<T, StorageError>.  The T differs from operation to operation ((),
\* bool, i64, Option<JobRequest>): the value is recorded in its printed form,
\* so that the records of any two calls can be compared.
Ok(v) == <<"Ok", ToString(v)>>
Err == <<"Err">>
IsOk(r) == r[1] = "Ok"

\* the record of one call: operation, caller (storage job type or worker id),
\* argument (job id, stream, count or, for schedule, the time `on`) and what
\* the call returned
Op(name, who, arg, ret) ==
    [op |-> name, who |-> who, arg |-> arg, ret |-> ret]

\* a job that is Pending again has been handed to nobody since
ResetGot(js, g) ==
    [id \in JobIds |->
        IF \E i \in DOMAIN js : js[i].id = id /\ js[i].status = "Pending"
        THEN {} ELSE g[id]]

(* ------------------------------- Init ---------------------------------- *)
NoStream == [pc |-> "new", worker_id |-> "", job_type |-> "", job |-> None]

Init ==
    /\ jobs = <<>>
    /\ workers = <<>>
    /\ now = 0
    /\ stream = [s \in Streams |-> NoStream]
    /\ got = [id \in JobIds |-> {}]
    /\ last = Op("setup", "", 0, Ok(0))

(* --------------------------- push / schedule --------------------------- *)
\* Storage::push: INSERT ... 'Pending', 0, 25, strftime('%s','now'), NULL x4
push(T, payload) ==
    /\ jobs' = Append(jobs, NewJob(payload, FreshId, T, now))
    /\ got' = ResetGot(jobs', got)
    /\ last' = Op("push", T, FreshId, Ok(0))
    /\ UNCHANGED <<workers, now, stream>>

\* Storage::schedule: the same INSERT with run_at = on.timestamp()
schedule(T, payload, on) ==
    /\ jobs' = Append(jobs, NewJob(payload, FreshId, T, on))
    /\ got' = ResetGot(jobs', got)
    /\ last' = Op("schedule", T, on, Ok(0))
    /\ UNCHANGED <<workers, now, stream>>

(* ----------------------------- poll stream ----------------------------- *)
SetMin(S) == CHOOSE x \in S : \A y \in S : x <= y

\* the WHERE of the inner SELECT min(rowid) of stream_jobs; AND binds tighter
\* than OR, so run_at and job_type constrain the Failed disjunct only
fetch_where(r, t, T) ==
    \/ r.status = "Pending"
    \/ /\ r.status = "Failed" /\ r.attempts < r.max_attempts
       /\ r.run_at < t
       /\ r.job_type = T

\* fetch_query of stream_jobs: the row whose rowid is the least matching
\* rowid.  The job column is opaque text here: the row decodes into a
\* JobRequest<T> for the T of any stream.
fetch_query(js, t, T) ==
    LET m == {i \in DOMAIN js : fetch_where(js[i], t, T)}
    IN  IF m = {} THEN None ELSE Some(js[SetMin(m)])

\* the WHERE of the UPDATE of fetch_next
claim_where_any(r, id) == r.id = id
claim_where(r, id) == r.id = id /\ r.status = "Pending" /\ r.lock_by = None

\* the UPDATE of fetch_next: status = 'Running', lock_by = ?2
claim_update(js, id, w) ==
    UpdateWhere(js, {i \in DOMAIN js : claim_where(js[i], id)},
                [i \in DOMAIN js |-> [js[i] EXCEPT !.status = "Running", !.lock_by = Some(w)]])

\* the SELECT of fetch_next: the row with this id that this worker holds
\* (fetch_optional: the first such row, or None)
claim_select(js, id, w) ==
    LET m == {i \in DOMAIN js : js[i].id = id /\ js[i].lock_by = Some(w)}
    IN  IF m = {} THEN None ELSE Some(js[SetMin(m)])

\* Storage::consume: a new poll stream for this worker id on a storage of type T
consume(s, w, T) ==
    /\ stream[s].pc = "new"
    /\ stream' = [stream EXCEPT ![s] =
                     [pc |-> "select", worker_id |-> w, job_type |-> T, job |-> None]]
    /\ last' = Op("consume", w, s, Ok(0))
    /\ UNCHANGED <<jobs, workers, now, got>>

\* stream_jobs, first half of a tick: interval.tick, acquire, the candidate
\* read.  An error leaves through `?`: try_stream yields Err and the stream
\* ends.  With no candidate fetch_next(None) is Ok(None), yielded at once.
stream_select(s, ok) ==
    /\ stream[s].pc = "select"
    /\ LET c == fetch_query(jobs, now, stream[s].job_type)
       IN  /\ stream' = [stream EXCEPT
                           ![s].pc = IF ~ok THEN "ended"
                                     ELSE IF c = None THEN "select" ELSE "fetch",
                           ![s].job = IF ok /\ c # None THEN Some(c[1].id) ELSE None]
           /\ last' = Op("select", stream[s].worker_id, s,
                         IF ~ok THEN Err ELSE IF c = None THEN Ok(None) ELSE Ok(c))
    /\ UNCHANGED <<jobs, workers, now, got>>

\* fetch_next(pool, worker_id, Some(job)): begin, UPDATE; SELECT, commit.
\* A failed statement or commit leaves the table as it was.
fetch_next(js, w, id) ==
    LET js2 == claim_update(js, id, w)
    IN  [jobs |-> js2, ret |-> claim_select(js2, id, w)]

\* stream_jobs, second half of a tick: yield fetch_next(...).await?  Of the
\* candidate only job.id() is read, so the stream keeps the id.
stream_fetch(s, ok) ==
    /\ stream[s].pc = "fetch"
    /\ LET w == stream[s].worker_id
           id == stream[s].job[1]
           r == fetch_next(jobs, w, id)
       IN  /\ jobs' = IF ok THEN r.jobs ELSE jobs
           /\ got' = IF ok /\ r.ret # None
                     THEN [got EXCEPT ![id] = @ \cup {w}]
                     ELSE got
           /\ last' = Op("fetch_next", w, s, IF ok THEN Ok(r.ret) ELSE Err)
           /\ stream' = [stream EXCEPT ![s].pc = IF ok THEN "select" ELSE "ended",
                                       ![s].job = None]
    /\ UNCHANGED <<workers, now>>

(* ------------------------- lifecycle operations ------------------------ *)
\* the WHERE of ack, kill and retry: id = ?1 AND lock_by = ?2
owner_where_any(r, id, w) == r.id = id
owner_where(r, id, w) == r.id = id /\ r.lock_by = Some(w)

\* one UPDATE by a lifecycle operation; execute's Ok is returned whatever
\* the number of rows affected
Lifecycle(name, who, id, js2) ==
    /\ jobs' = js2
    /\ got' = ResetGot(jobs', got)
    /\ last' = Op(name, who, id, Ok(0))
    /\ UNCHANGED <<workers, now, stream>>

\* Storage::ack: status = 'Done', done_at = strftime('%s','now')
ack(w, id) ==
    Lifecycle("ack", w, id,
        UpdateWhere(jobs, {i \in DOMAIN jobs : owner_where(jobs[i], id, w)},
            [i \in DOMAIN jobs |-> [jobs[i] EXCEPT !.status = "Done", !.done_at = Some(now)]]))

\* Storage::kill: status = 'Kill', done_at = strftime('%s','now')
kill(w, id) ==
    Lifecycle("kill", w, id,
        UpdateWhere(jobs, {i \in DOMAIN jobs : owner_where(jobs[i], id, w)},
            [i \in DOMAIN jobs |-> [jobs[i] EXCEPT !.status = "Kill", !.done_at = Some(now)]]))

\* retry without its lock_by = NULL
retry_locked(w, id) ==
    Lifecycle("retry", w, id,
        UpdateWhere(jobs, {i \in DOMAIN jobs : owner_where(jobs[i], id, w)},
            [i \in DOMAIN jobs |-> [jobs[i] EXCEPT !.status = "Pending", !.done_at = None]]))

\* Storage::retry: status = 'Pending', done_at = NULL, lock_by = NULL
retry(w, id) ==
    Lifecycle("retry", w, id,
        UpdateWhere(jobs, {i \in DOMAIN jobs : owner_where(jobs[i], id, w)},
            [i \in DOMAIN jobs |-> [jobs[i] EXCEPT !.status = "Pending", !.done_at = None,
                                                  !.lock_by = None]]))

\* the worker a JobRequest was handed to: its lock_by ("" for NULL)
Holder(job) == IF job.lock_by = None THEN "" ELSE job.lock_by[1]

\* Storage::reschedule(job, wait): of the caller's snapshot `job` only
\* job.id() is read; WHERE id = ?1 only; run_at = now + wait
reschedule(job, wait) ==
    Lifecycle("reschedule", Holder(job), job.id,
        UpdateWhere(jobs, {i \in DOMAIN jobs : jobs[i].id = job.id},
            [i \in DOMAIN jobs |-> [jobs[i] EXCEPT !.status = "Failed", !.done_at = None,
                                                  !.lock_by = None, !.lock_at = None,
                                                  !.run_at = now + wait]]))

\* Storage::update_by_id: WHERE id = ?7 only; six columns from the snapshot
update_by_id(id, job) ==
    Lifecycle("update_by_id", "", id,
        UpdateWhere(jobs, {i \in DOMAIN jobs : jobs[i].id = id},
            [i \in DOMAIN jobs |->
                [jobs[i] EXCEPT !.status = job.status, !.attempts = job.attempts,
                                !.done_at = job.done_at, !.lock_by = job.lock_by,
                                !.lock_at = job.lock_at,
                                !.last_error = job.last_error]]))

\* the snapshots a caller passes to update_by_id: the stored row as it
\* reads it, with the status and attempt count it then sets and, for a
\* caller that stamps the lock time, lock_at = now
Snapshots(r, stamp) ==
    {[r EXCEPT !.status = st, !.attempts = a, !.lock_at = la] :
        st \in {"Pending", "Running", "Failed"},
        a \in {r.attempts, r.max_attempts},
        la \in {r.lock_at} \cup (IF stamp THEN {Some(now)} ELSE {})}

\* Storage::len: Count(*) ... where status='Pending'; the storage's job
\* type takes no part in the query
len(T) ==
    /\ last' = Op("len", T, 0,
                  Ok(Cardinality({i \in DOMAIN jobs : jobs[i].status = "Pending"})))
    /\ UNCHANGED <<jobs, workers, now, stream, got>>

(* ------------------------ registry and sweeps -------------------------- *)
\* Storage::keep_alive: INSERT OR REPLACE INTO Workers; no uniqueness
\* constraint exists for OR REPLACE to act on, so a row is added
keep_alive(T, w) ==
    /\ workers' = Append(workers, WorkerRow(w, T, now))
    /\ last' = Op("keep_alive", w, 0, Ok(0))
    /\ UNCHANGED <<jobs, now, stream, got>>

\* ORDER BY lock_at ASC: NULL sorts first
LockBefore(a, b) == (a = None /\ b # None) \/ (a # None /\ b # None /\ a[1] < b[1])

\* the result rows with no LIMIT
Unlimited(rows, n) == {rows}

\* ORDER BY lock_at ASC LIMIT n over the result rows `rows` (pairs whose
\* first component is a Jobs rowid): every way to take the first n, rows
\* with equal lock_at in any order
Limited(rows, n) ==
    {S \in SUBSET rows :
        /\ Cardinality(S) = IF Cardinality(rows) < n THEN Cardinality(rows) ELSE n
        /\ \A a \in S, b \in rows \ S :
              ~LockBefore(jobs[b[1]].lock_at, jobs[a[1]].lock_at)}

\* one sweep: the UPDATE ... WHERE id in (<picked>); `set` the row each
\* rowid would become
Sweep(name, T, count, picked, set) ==
    /\ jobs' = UpdateWhere(jobs,
                 {i \in DOMAIN jobs : \E p \in picked : jobs[p[1]].id = jobs[i].id},
                 set)
    /\ got' = ResetGot(jobs', got)
    /\ last' = Op(name, T, count, Ok(TRUE))
    /\ UNCHANGED <<workers, now, stream>>

\* the inner SELECT of EnqueueScheduled; job_type is bound to ?1, which the
\* statement does not mention
enqueue_where_any(r) == r.status = "Failed"
enqueue_where(r) == r.status = "Failed" /\ r.attempts < r.max_attempts

\* Storage::heartbeat(WorkerPulse::EnqueueScheduled { count })
EnqueueScheduled(T, count) ==
    \E picked \in Limited({<<i, 0>> : i \in {i \in DOMAIN jobs : enqueue_where(jobs[i])}}, count) :
        Sweep("EnqueueScheduled", T, count, picked,
              [i \in DOMAIN jobs |->
                  [jobs[i] EXCEPT !.status = "Pending", !.done_at = None,
                                  !.lock_by = None, !.lock_at = None]])

\* the inner SELECT of RenqueueOrpharned: Jobs INNER JOIN Workers ON lock_by
\* = Workers.id WHERE status = "Running" AND last_seen < ?1 AND worker_type = ?2
orphan_where(r, wr, t, T) ==
    /\ r.lock_by = Some(wr.id)
    /\ r.status = "Running"
    /\ wr.last_seen < t
    /\ wr.worker_type = T

\* RenqueueOrpharned counting the abandoned run as an attempt
RenqueueCounting(T, count) ==
    \E picked \in Limited({p \in (DOMAIN jobs) \X (DOMAIN workers) :
                              orphan_where(jobs[p[1]], workers[p[2]], now - OrphanAge, T)},
                          count) :
        Sweep("RenqueueOrpharned", T, count, picked,
              [i \in DOMAIN jobs |->
                  [jobs[i] EXCEPT !.status = "Pending", !.done_at = None,
                                  !.lock_by = None, !.lock_at = None,
                                  !.attempts = @ + 1,
                                  !.last_error = Some("Job was abandoned")]])

\* Storage::heartbeat(WorkerPulse::RenqueueOrpharned { count })
RenqueueOrpharned(T, count) ==
    \E picked \in Limited({p \in (DOMAIN jobs) \X (DOMAIN workers) :
                              orphan_where(jobs[p[1]], workers[p[2]], now - OrphanAge, T)},
                          count) :
        Sweep("RenqueueOrpharned", T, count, picked,
              [i \in DOMAIN jobs |->
                  [jobs[i] EXCEPT !.status = "Pending", !.done_at = None,
                                  !.lock_by = None, !.lock_at = None,
                                  !.last_error = Some("Job was abandoned")]])

(* ------------------------------- clock --------------------------------- *)
Tick(d) ==
    /\ now + d <= MaxTime
    /\ now' = now + d
    /\ last' = Op("tick", "", d, Ok(0))
    /\ UNCHANGED <<jobs, workers, stream, got>>

(* --------------------------- specifications ---------------------------- *)
\* The callers.  Each group takes the bound of the specification it is used in.
Inserts(n) ==
    /\ Len(jobs) < n
    /\ \E T \in JobTypes, p \in Payloads :
          \/ push(T, p)
          \/ \E on \in {now, now + MaxWait} : schedule(T, p, on)

\* consume, then the ticks of every stream; W[s] is the worker id stream s
\* is opened with; `fail`: the storage may fail a tick
Polls(W, fail) ==
    \/ \E s \in Streams : consume(s, W[s], StorageOf[W[s]])
    \/ \E s \in Streams, ok \in {TRUE, ~fail} : stream_select(s, ok)
    \/ \E s \in Streams, ok \in {TRUE, ~fail} : stream_fetch(s, ok)

Finishes ==
    \E w \in WorkerIds, i \in DOMAIN jobs :
        \/ ack(w, jobs[i].id)
        \/ kill(w, jobs[i].id)
        \/ retry(w, jobs[i].id)

Reschedules ==
    \E i \in DOMAIN jobs, wait \in Waits : reschedule(jobs[i], wait)

Updates(stamp) ==
    \E i \in DOMAIN jobs :
        \E job \in Snapshots(jobs[i], stamp) : update_by_id(jobs[i].id, job)

KeepAlives(n) ==
    /\ Len(workers) < n
    /\ \E w \in WorkerIds : keep_alive(StorageOf[w], w)

Requeues == \E T \in JobTypes, count \in 1..MaxCount : EnqueueScheduled(T, count)

Reclaims == \E T \in JobTypes, count \in 1..MaxCount : RenqueueOrpharned(T, count)

Lens == \E T \in JobTypes : len(T)

Clock == \E d \in ClockSteps : Tick(d)

\* One job: every operation but update_by_id, the storage answering.
Next ==
    \/ Inserts(MaxJobs)
    \/ Polls(OwnIds, FALSE)
    \/ Finishes
    \/ Reschedules
    \/ KeepAlives(MaxWorkerRows)
    \/ Requeues
    \/ Reclaims
    \/ Clock

Spec == Init /\ [][Next]_vars

\* One job, with update_by_id and at most MaxBeats heartbeats.
NextUpdate ==
    \/ Inserts(MaxJobs)
    \/ Polls(OwnIds, FALSE)
    \/ Finishes
    \/ Reschedules
    \/ Updates(FALSE)
    \/ KeepAlives(MaxBeats)
    \/ Requeues
    \/ Reclaims
    \/ Clock

SpecUpdate == Init /\ [][NextUpdate]_vars

\* Several jobs at one instant of the clock, on a storage that may fail a
\* poll tick.
NextQueue ==
    \/ Inserts(MaxQueue)
    \/ Polls(OwnIds, TRUE)
    \/ Finishes
    \/ Reschedules
    \/ Requeues
    \/ Lens

SpecQueue == Init /\ [][NextQueue]_vars

\* the heartbeats of workers that stop before the clock moves
EarlyBeats(n) == now = 0 /\ KeepAlives(n)

\* the clock passing the orphan age in one step
Elapse == Tick(OrphanAge + 1)

\* the orphan sweep of one storage, with any count
ReclaimsOf(T) == \E count \in 1..MaxCount : RenqueueOrpharned(T, count)

\* Workers that claim jobs and then stop: no ack, kill, retry or reschedule,
\* heartbeats only before the clock moves; the orphan sweep of every storage
\* keeps being run and time keeps passing.
NextOrphan ==
    \/ Inserts(MaxQueue)
    \/ Polls(OwnIds, FALSE)
    \/ EarlyBeats(MaxWorkerRows)
    \/ Reclaims
    \/ Elapse

SpecOrphan ==
    /\ Init /\ [][NextOrphan]_vars
    /\ \A T \in JobTypes : WF_vars(ReclaimsOf(T))
    /\ WF_vars(Elapse)

\* a run of a job reported as failed: reschedule of a job not Failed yet
Fails ==
    \E i \in DOMAIN jobs, wait \in Waits :
        jobs[i].status # "Failed" /\ reschedule(jobs[i], wait)

\* one step of the loop of stream_jobs on a storage that answers
PollTick(s) == stream_select(s, TRUE) \/ stream_fetch(s, TRUE)

\* Workers that keep polling: jobs are inserted, runs fail, time passes, no
\* sweep runs; the loop of every stream opened by consume keeps ticking.
NextPoll ==
    \/ Inserts(MaxQueue)
    \/ Polls(OwnIds, FALSE)
    \/ Fails
    \/ Elapse

SpecPoll ==
    /\ Init /\ [][NextPoll]_vars
    /\ \A s \in Streams : WF_vars(PollTick(s))

\* the times of the heartbeats the Workers table holds for a worker
Heartbeats(w) == {workers[k].last_seen : k \in {k \in DOMAIN workers : workers[k].id = w}}

\* worker w lost job r to the orphan sweep: the sweep has reset r, which it
\* does to jobs locked by a worker with a Workers row, and w is the only
\* worker with one; w is not the owner now
Stale(r, w) ==
    /\ r.last_error = Some("Job was abandoned")
    /\ r.lock_by # Some(w)
    /\ Heartbeats(w) # {}
    /\ \A k \in DOMAIN workers : workers[k].id = w

\* reschedule called by a worker that lost the job, with the JobRequest
\* fetch_next once returned to it
StaleReschedules ==
    \E i \in DOMAIN jobs, w \in WorkerIds, wait \in Waits :
        /\ Stale(jobs[i], w)
        /\ reschedule([jobs[i] EXCEPT !.status = "Running", !.lock_by = Some(w)], wait)

\* Jobs reclaimed from a silent worker and claimed again, the first worker
\* then reporting its run as failed.
NextStale ==
    \/ Inserts(MaxQueue)
    \/ Polls(OwnIds, FALSE)
    \/ EarlyBeats(MaxBeats)
    \/ Elapse
    \/ Reclaims
    \/ StaleReschedules

SpecStale == Init /\ [][NextStale]_vars

\* every stream opened with the same worker id
SharedIds == [s \in Streams |-> "w1"]

\* Several streams of one worker id, with update_by_id.
NextShared ==
    \/ Inserts(MaxJobs)
    \/ Polls(SharedIds, FALSE)
    \/ Finishes
    \/ Reschedules
    \/ Updates(FALSE)
    \/ Requeues
    \/ Clock

SpecShared == Init /\ [][NextShared]_vars

(* ------------------------------- claims -------------------------------- *)
\* C1: between two resets of a job to Pending, fetch_next returns the job to
\* at most one worker, whatever the interleaving of the ticks of the two
\* workers with retry, reschedule and both sweeps.
AtMostOneClaimant == \A id \in JobIds : Cardinality(got[id]) <= 1

\* C1 witness: w1 was handed job 1 and the tick of w2 for the same candidate
\* has just yielded nothing.
RaceLost ==
    /\ got[1] = {"w1"}
    /\ last.op = "fetch_next" /\ last.who = "w2" /\ last.ret = Ok(None)

\* the job a poll stream's worker is running
Holds(s, i) ==
    /\ stream[s].pc # "new"
    /\ jobs[i].status = "Running"
    /\ jobs[i].lock_by = Some(stream[s].worker_id)

\* C2: a job moved to Running by a tick of a stream serving type T has
\* job_type = T.
ClaimsOnlyOwnType ==
    \A s \in Streams, i \in DOMAIN jobs :
        Holds(s, i) => jobs[i].job_type = stream[s].job_type

\* C3: no job is Running before its run_at: run_at stays as it is while the
\* job runs and the clock only advances, so a job Running with run_at ahead
\* of the clock was claimed before run_at.
NotClaimedBeforeRunAt ==
    \A i \in DOMAIN jobs : jobs[i].status = "Running" => jobs[i].run_at <= now

\* the statuses ack and kill leave a job in (kill writes 'Kill')
Terminal == {"Done", "Kill", "Killed"}

\* C4: once a job is Done or Killed, no claim attempt, ack, kill, retry,
\* EnqueueScheduled sweep or orphan sweep changes its status.
TerminalStays ==
    [][\A i \in DOMAIN jobs :
          (/\ jobs[i].status \in Terminal
           /\ last'.op \in {"select", "fetch_next", "ack", "kill", "retry",
                             "EnqueueScheduled", "RenqueueOrpharned"})
          => jobs'[i].status = jobs[i].status]_vars

\* C5: ack, kill and retry called with a worker id other than the job's
\* lock_by leave the Jobs table as it was and return Ok.
OwnershipGuard ==
    [][\A i \in DOMAIN jobs :
          (/\ last'.op \in {"ack", "kill", "retry"}
           /\ last'.arg = jobs[i].id
           /\ jobs[i].lock_by # Some(last'.who))
          => (jobs' = jobs /\ last'.ret = Ok(0))]_vars

\* C5 witness: ack, kill or retry was called by a worker on a job that the
\* other worker is running.
StrangerCalled ==
    /\ last.op \in {"ack", "kill", "retry"}
    /\ \E i \in DOMAIN jobs :
          /\ jobs[i].id = last.arg
          /\ jobs[i].status = "Running"
          /\ jobs[i].lock_by # None
          /\ jobs[i].lock_by # Some(last.who)

\* C6: the orphan sweep resets a Running job only if the last heartbeat of
\* its owner is strictly older than now - 5 minutes: a job whose owner sent
\* a heartbeat within the last 5 minutes is never reset.
OrphanOnlyIfSilent ==
    [][last'.op = "RenqueueOrpharned" =>
          \A i \in DOMAIN jobs :
              (jobs[i].status = "Running" /\ jobs'[i].status = "Pending")
              => /\ jobs[i].lock_by # None
                 /\ \A t \in Heartbeats(jobs[i].lock_by[1]) : t < now - OrphanAge]_vars

\* C7: the Workers table holds at most one row per worker id.
OneRowPerWorker ==
    \A a, b \in DOMAIN workers : workers[a].id = workers[b].id => a = b

\* a Failed job that has used up its attempts
DeadLetter(r) == r.status = "Failed" /\ r.attempts >= r.max_attempts

\* C8: a Failed job with attempts >= max_attempts stays Failed through every
\* EnqueueScheduled sweep, orphan sweep and poll tick.
DeadLetterStays ==
    [][\A i \in DOMAIN jobs :
          (/\ DeadLetter(jobs[i])
           /\ last'.op \in {"EnqueueScheduled", "RenqueueOrpharned", "select", "fetch_next"})
          => jobs'[i].status = "Failed"]_vars

\* C8 witness: an EnqueueScheduled sweep has run over a dead-letter job.
DeadLetterSwept ==
    /\ last.op = "EnqueueScheduled"
    /\ \E i \in DOMAIN jobs : DeadLetter(jobs[i])

\* C9: a tick that yields an error item leaves its poll stream running.
ErrorKeepsStream ==
    (last.op \in {"select", "fetch_next"} /\ ~IsOk(last.ret))
    => stream[last.arg].pc # "ended"

\* C10: len on a storage for job type T returns the number of Pending jobs
\* of type T.
LenCountsOwnType ==
    last.op = "len" =>
        last.ret = Ok(Cardinality({i \in DOMAIN jobs :
                         jobs[i].status = "Pending" /\ jobs[i].job_type = last.who}))

\* C11: push and schedule add one row with an id no existing row has, status
\* Pending, attempts 0, max_attempts 25, run_at = now (push) or the given
\* time (schedule), last_error, lock_at, lock_by and done_at NULL, and leave
\* every existing row as it was.
InsertAddsPendingRow ==
    [][last'.op \in {"push", "schedule"} =>
          /\ Len(jobs') = Len(jobs) + 1
          /\ \A i \in DOMAIN jobs : jobs'[i] = jobs[i]
          /\ LET r == jobs'[Len(jobs')]
             IN  /\ \A i \in DOMAIN jobs : jobs[i].id # r.id
                 /\ r.job_type = last'.who
                 /\ r.status = "Pending"
                 /\ r.attempts = 0
                 /\ r.max_attempts = 25
                 /\ r.run_at = IF last'.op = "push" THEN now ELSE last'.arg
                 /\ r.last_error = None /\ r.lock_at = None
                 /\ r.lock_by = None /\ r.done_at = None]_vars

\* C11 witness: a job was scheduled for a later time into a table that holds
\* a job a worker is running.
ScheduledBehindRunning ==
    /\ last.op = "schedule" /\ last.arg > now
    /\ Len(jobs) = 2
    /\ jobs[1].status = "Running"
    /\ jobs[2].run_at = last.arg

\* C12: every Pending job has lock_by = NULL, after any sequence of push,
\* schedule, claim, ack, kill, retry, reschedule and the two sweeps.
PendingIsUnlocked ==
    \A i \in DOMAIN jobs : jobs[i].status = "Pending" => jobs[i].lock_by = None

\* C12 witness: the orphan sweep has put a job a worker held back to Pending.
OrphanBackToPending ==
    /\ last.op = "RenqueueOrpharned"
    /\ \E i \in DOMAIN jobs :
          /\ jobs[i].status = "Pending"
          /\ jobs[i].last_error = Some("Job was abandoned")

\* the jobs the EnqueueScheduled sweep may take
Retryable(r) == r.status = "Failed" /\ r.attempts < r.max_attempts

\* C13: one EnqueueScheduled sweep with parameter count resets at most count
\* jobs to Pending, each Failed with attempts < max_attempts before; with
\* count = 1 and several such jobs exactly one is reset and the others stay
\* Failed.
EnqueueAtMostCount ==
    [][last'.op = "EnqueueScheduled" =>
          LET reset == {i \in DOMAIN jobs :
                           jobs[i].status # "Pending" /\ jobs'[i].status = "Pending"}
              ready == {i \in DOMAIN jobs : Retryable(jobs[i])}
          IN  /\ Cardinality(reset) <= last'.arg
              /\ reset \subseteq ready
              /\ (last'.arg = 1 /\ Cardinality(ready) > 1) =>
                    /\ Cardinality(reset) = 1
                    /\ \A i \in ready \ reset : jobs'[i].status = "Failed"]_vars

\* C13 witness: a sweep with count = 1 has left a retryable job Failed, so it
\* took the other job, which is Pending now.
EnqueuedOneOfTwo ==
    /\ last.op = "EnqueueScheduled" /\ last.arg = 1
    /\ Len(jobs) = 2
    /\ \E i, k \in DOMAIN jobs :
          Retryable(jobs[i]) /\ jobs[k].status = "Pending"

\* C14: a sweep run on the storage for job type T leaves every job of
\* another type as it was.
SweepsOwnTypeOnly ==
    [][last'.op \in {"EnqueueScheduled", "RenqueueOrpharned"} =>
          \A i \in DOMAIN jobs :
              jobs[i].job_type # last'.who => jobs'[i] = jobs[i]]_vars

\* C15: the status of every job is one of Pending, Running, Done, Failed and
\* Killed.
StatusInLifecycle ==
    \A i \in DOMAIN jobs :
        jobs[i].status \in {"Pending", "Running", "Done", "Failed", "Killed"}

\* the jobs the orphan sweep of the storage for type T may take
Orphaned(r, T) ==
    \E k \in DOMAIN workers : orphan_where(r, workers[k], now - OrphanAge, T)

\* C16: the orphan sweep sets status = Pending, lock_by = NULL and
\* last_error = "Job was abandoned" on each job it resets and leaves its
\* attempts, max_attempts, run_at, job_type, payload and id as they were; it
\* changes no job it does not select, and selects at most count jobs.
OrphanSweepFrame ==
    [][last'.op = "RenqueueOrpharned" =>
          LET changed == {i \in DOMAIN jobs : jobs'[i] # jobs[i]}
          IN  /\ Cardinality(changed) <= last'.arg
              /\ \A i \in changed :
                    /\ Orphaned(jobs[i], last'.who)
                    /\ jobs'[i].status = "Pending"
                    /\ jobs'[i].lock_by = None
                    /\ jobs'[i].last_error = Some("Job was abandoned")
                    /\ jobs'[i].attempts = jobs[i].attempts
                    /\ jobs'[i].max_attempts = jobs[i].max_attempts
                    /\ jobs'[i].run_at = jobs[i].run_at
                    /\ jobs'[i].job_type = jobs[i].job_type
                    /\ jobs'[i].job = jobs[i].job
                    /\ jobs'[i].id = jobs[i].id]_vars

\* C16 witness: of two jobs of a silent worker a sweep with count = 1 has
\* reset one and left the other Running.
OrphanResetOneOfTwo ==
    /\ last.op = "RenqueueOrpharned" /\ last.arg = 1
    /\ \E i, k \in DOMAIN jobs :
          /\ jobs[i].status = "Pending"
          /\ jobs[i].last_error = Some("Job was abandoned")
          /\ jobs[k].last_error = None
          /\ Orphaned(jobs[k], last.who)

\* C17: a job claimed by a worker that then stops (no ack, kill, retry or
\* reschedule, no further heartbeat, possibly no heartbeat at all) is
\* eventually reset to Pending, the orphan sweep of every storage being run
\* again and again with count >= 1 while time passes.
OrphanEventuallyReset ==
    \A i \in JobIds :
        (i \in DOMAIN jobs /\ jobs[i].status = "Running")
            ~> (i \in DOMAIN jobs /\ jobs[i].status = "Pending")

\* C18: a Pending job whose run_at has elapsed, of the type of a stream that
\* keeps polling, does not stay Pending forever: no job ahead of it that
\* the candidate query returns and the claim rejects blocks it.
PollEventuallyClaims ==
    \A i \in JobIds, s \in Streams :
        (/\ i \in DOMAIN jobs
         /\ jobs[i].status = "Pending" /\ jobs[i].run_at <= now
         /\ stream[s].pc \in {"select", "fetch"}
         /\ stream[s].job_type = jobs[i].job_type)
            ~> (i \in DOMAIN jobs /\ jobs[i].status # "Pending")

\* C19: reschedule called by a worker other than the one a Running job is
\* locked by (a worker that lost the job to the orphan sweep, with the
\* snapshot it was handed) leaves the job's status, lock_by and run_at as
\* they were.
StaleRescheduleHarmless ==
    [][\A i \in DOMAIN jobs :
          (/\ last'.op = "reschedule"
           /\ last'.arg = jobs[i].id
           /\ jobs[i].status = "Running"
           /\ jobs[i].lock_by # None
           /\ jobs[i].lock_by # Some(last'.who))
          => /\ jobs'[i].status = jobs[i].status
             /\ jobs'[i].lock_by = jobs[i].lock_by
             /\ jobs'[i].run_at = jobs[i].run_at]_vars

\* C20: a job a poll tick yields was moved from Pending to Running by the
\* UPDATE of that tick and is Running with lock_by = the stream's worker id
\* when fetch_next returns; a tick whose UPDATE changed no row yields
\* nothing.
YieldsOnlyClaimed ==
    [][(last'.op = "fetch_next" /\ IsOk(last'.ret) /\ last'.ret # Ok(None)) =>
          \E i \in DOMAIN jobs :
              /\ last'.ret = Ok(Some(jobs'[i]))
              /\ jobs[i].status = "Pending"
              /\ jobs'[i].status = "Running"
              /\ jobs'[i].lock_by = Some(last'.who)]_vars

====
